---- MODULE Spec2Model ----
(***************************************************************************)
(* A model of two parts of the Nestopia front end:                         *)
(*   - the OmniScale fragment shader (is_different, scale, main), and      *)
(*   - SettingManager (the built-in frontend settings and read()).         *)
(*                                                                         *)
(* Numbers.  The shader computes on reals (highp float).  The model keeps  *)
(* every value as an exact fraction <<n, d>> in lowest terms, d > 0, so    *)
(* that "exactly this colour" and "factor exactly 0" mean what they say.   *)
(* The only irrational operations, length() and sqrt(5.0), are rounded     *)
(* down to a multiple of 1/LenUnit.  A colour is <<r, g, b, a>>, each      *)
(* channel a fraction; a stored sample has channels k/ChanMax.             *)
(***************************************************************************)
EXTENDS Integers, Sequences, FiniteSets, TLC

VARIABLES
    image,       \* the source texture: [0..W-1 -> [0..H-1 -> colour]], or <<>>
    sourceSize,  \* <<W, H>> of the source texture      (uniform sourceSize.xy)
    targetSize,  \* <<W, H>> of the output              (uniform targetSize.xy)
    frag,        \* the output pixel <<i, j>> being shaded, or <<>>
    w,           \* the nine near samples w0..w8, as w[0]..w[8]
    x,           \* the seven extended-ring samples x0..x6, as x[0]..x[6]
    p,           \* the position within the pixel after the flips, <<p.x, p.y>>
    ret,         \* what scale() returned: [color, line, ...], or <<>> before
    pc,          \* "scale" before main() has run, "done" after
    ca, cb,      \* the two colours handed to is_different
    differ,      \* <<is_different(ca, cb), is_different(cb, ca)>>, or <<>>
    val          \* val[k]: the current value of frontend setting k

vars == <<image, sourceSize, targetSize, frag, w, x, p, ret, pc, ca, cb, differ, val>>

shaderVars   == <<image, sourceSize, targetSize, frag, w, x, p, ret, pc>>
classifyVars == <<ca, cb, differ>>

---------------------------------------------------------------------------
(* Bounds of the model.                                                    *)

\* Positions p are drawn from the grid k/PGrid, 0 <= k/PGrid <= 1/2.
PGrid == 4
\* length() and sqrt(5.0) are rounded down to a multiple of 1/LenUnit.
LenUnit == 64
\* A stored colour channel is k/ChanMax, 0 <= k <= ChanMax.
ChanMax == 255
\* Classifier inputs have channels k * ChanStep / ChanMax, 0 <= k <= ChanLevels.
ChanLevels == 2
ChanStep == 25
\* A configuration file holds at most MaxEntries non-empty frontend entries.
MaxEntries == 2

---------------------------------------------------------------------------
(* Exact fractions.                                                        *)

Abs(n) == IF n < 0 THEN -n ELSE n

RECURSIVE GCD(_, _)
GCD(m, n) == IF n = 0 THEN m ELSE GCD(n, m % n)

\* n/d in lowest terms with a positive denominator (d # 0).
Frac(n, d) ==
    LET g == GCD(Abs(n), Abs(d))
        s == IF d < 0 THEN -1 ELSE 1
    IN  <<s * (n \div g), Abs(d) \div g>>

Whole(n) == <<n, 1>>
Zero == <<0, 1>>
One  == <<1, 1>>
Half == <<1, 2>>

Add(q, r) ==
    IF q[2] = r[2] THEN Frac(q[1] + r[1], q[2])
    ELSE LET g == GCD(q[2], r[2])
         IN  Frac(q[1] * (r[2] \div g) + r[1] * (q[2] \div g), (q[2] \div g) * r[2])
Neg(q)    == <<-q[1], q[2]>>
Sub(q, r) == Add(q, Neg(r))
Mul(q, r) ==
    LET g1 == GCD(Abs(q[1]), r[2])
        g2 == GCD(Abs(r[1]), q[2])
    IN  IF q[1] = 0 \/ r[1] = 0 THEN Zero
        ELSE <<(q[1] \div g1) * (r[1] \div g2), (q[2] \div g2) * (r[2] \div g1)>>
\* q / r, r # 0
Div(q, r) == Mul(q, IF r[1] < 0 THEN <<-r[2], -r[1]>> ELSE <<r[2], r[1]>>)
\* q < r and q <= r, compared over the least common denominator.
Lt(q, r)  ==
    IF q[2] = r[2] THEN q[1] < r[1]
    ELSE LET g == GCD(q[2], r[2]) IN q[1] * (r[2] \div g) < r[1] * (q[2] \div g)
Le(q, r)  == ~ Lt(r, q)
AbsQ(q)   == <<Abs(q[1]), q[2]>>

\* The largest k with k*k <= n, found by bisection on lo <= k < hi.
RECURSIVE ISqrtIn(_, _, _)
ISqrtIn(n, lo, hi) ==
    IF hi - lo <= 1 THEN lo
    ELSE LET mid == (lo + hi) \div 2
         IN  IF mid * mid <= n THEN ISqrtIn(n, mid, hi) ELSE ISqrtIn(n, lo, mid)
ISqrt(n) == ISqrtIn(n, 0, n + 1)

\* sqrt(q), rounded down to a multiple of 1/LenUnit.
SqrtQ(q) == Frac(ISqrt((q[1] * LenUnit * LenUnit) \div q[2]), LenUnit)

\* GLSL length(v) of a two-component vector.
Length(v) == SqrtQ(Add(Mul(v[1], v[1]), Mul(v[2], v[2])))

\* GLSL fract(q) = q - floor(q).
Fract(q) == Frac(q[1] % q[2], q[2])
Floor(q) == q[1] \div q[2]

---------------------------------------------------------------------------
(* Colours.                                                                *)

Chan == 1..4

\* The stored colour with channels r/ChanMax, g/ChanMax, b/ChanMax, a/ChanMax.
RGBA(r, g, b, a) == <<Frac(r, ChanMax), Frac(g, ChanMax), Frac(b, ChanMax), Frac(a, ChanMax)>>

\* c * k for a colour c and a fraction k
Scaled(c, k) == [i \in Chan |-> Mul(c[i], k)]
Plus(c, d)   == [i \in Chan |-> Add(c[i], d[i])]

\* GLSL mix(u, v, a) = u * (1 - a) + v * a, per channel.
Mix(u, v, a) == [i \in Chan |-> Add(Mul(u[i], Sub(One, a)), Mul(v[i], a))]

---------------------------------------------------------------------------
(* The colour classifier.                                                  *)

\* The thresholds of is_different, in thousandths.
ThreshY == 125
ThreshU == 27
ThreshV == 31

rgb_to_hq_colospace(rgb) ==
    << Add(Add(Mul(<<1, 4>>, rgb[1]), Mul(<<1, 4>>, rgb[2])), Mul(<<1, 4>>, rgb[3])),
       Sub(Sub(Mul(<<1, 4>>, rgb[1]), Mul(Zero, rgb[2])), Mul(<<1, 4>>, rgb[3])),
       Add(Add(Mul(<<-1, 8>>, rgb[1]), Mul(<<1, 4>>, rgb[2])), Mul(<<-1, 8>>, rgb[3])) >>

\* diff.x > 0.125 || diff.y > 0.027 || diff.z > 0.031
OverThreshold(diff) ==
    \/ Lt(Frac(ThreshY, 1000), diff[1])
    \/ Lt(Frac(ThreshU, 1000), diff[2])
    \/ Lt(Frac(ThreshV, 1000), diff[3])

\* abs(ha - hb), per component
AbsDiff(ha, hb) == [i \in 1..3 |-> AbsQ(Sub(ha[i], hb[i]))]

\* The mutant: the difference is taken without abs().
is_different_signed(a, b) ==
    LET ha == rgb_to_hq_colospace(a)
        hb == rgb_to_hq_colospace(b)
    IN  OverThreshold([i \in 1..3 |-> Sub(ha[i], hb[i])])

is_different(a, b) ==
    OverThreshold(AbsDiff(rgb_to_hq_colospace(a), rgb_to_hq_colospace(b)))

---------------------------------------------------------------------------
(* scale(): the pattern and the rule bodies.                               *)

RECURSIVE BitAnd(_, _)
BitAnd(m, n) ==
    IF m = 0 \/ n = 0 THEN 0
    ELSE (m % 2) * (n % 2) + 2 * BitAnd(m \div 2, n \div 2)

\* #define P(m, r) ((pattern & (m)) == (r))
P(pattern, m, r) == BitAnd(pattern, m) = r

\* if (...) pattern |= 1 << k;
Bit(b, k) == IF b THEN 2 ^ k ELSE 0

\* d[k]: is_different(samples[k], c)
Differs(samples, c) == [k \in DOMAIN samples |-> is_different(samples[k], c)]

NearBits(d) ==
    Bit(d[0], 0) + Bit(d[1], 1) + Bit(d[2], 2) + Bit(d[3], 3)
  + Bit(d[5], 4) + Bit(d[6], 5) + Bit(d[7], 6) + Bit(d[8], 7)

RingBits(d) ==
    Bit(d[0], 8) + Bit(d[1], 9) + Bit(d[2], 10) + Bit(d[3], 11)
  + Bit(d[4], 12) + Bit(d[5], 13) + Bit(d[6], 14)

\* Bits 0..7: which of w0 w1 w2 w3 w5 w6 w7 w8 differ from w4.
NearPattern(s) == NearBits(Differs(s, s[4]))

\* Bits 8..14: which of x0..x6 differ from w4.
RingPattern(r, c) == RingBits(Differs(r, c))

\* while (pattern != 0) { diagonal_bias += pattern & 1; pattern >>= 1; }
RECURSIVE BiasLoop(_, _)
BiasLoop(pattern, diagonal_bias) ==
    IF pattern = 0 THEN diagonal_bias
    ELSE BiasLoop(pattern \div 2, diagonal_bias + (pattern % 2))

\* The mutant: the near bits are shifted out before the count.
DiagonalBiasRingOnly(pattern) == BiasLoop(pattern \div 256, -7)

DiagonalBias(pattern) == BiasLoop(pattern, -7)

\* length(1.0 / (uResolution / textureDimensions))
PixelSize(src, tgt) ==
    Length(<< Div(One, Div(Whole(tgt[1]), Whole(src[1]))),
              Div(One, Div(Whole(tgt[2]), Whole(src[2]))) >>)

\* sqrt(5.0)
Sqrt5 == SqrtQ(Whole(5))

Twice(q) == Mul(q, Whole(2))
HalfOf(q) == Div(q, Whole(2))

\* What a return statement gives: the colour, the line of the return, and, for the
\* final mix of a distance rule, the factor it was called with (<<>> otherwise).
Ret(c, l)       == [color |-> c, line |-> l, t |-> <<>>, bias |-> 0, ext |-> 0]
RetMix(c, l, f) == [color |-> c, line |-> l, t |-> f, bias |-> 0, ext |-> 0]
\* return mix(u, v, f);
Blend(u, v, f, l) == RetMix(Mix(u, v, f), l, f)

\* The mutant: the third weight is 0.5, so the weights sum to 9/8.
CornerHeavy(c0, c1, c2) ==
    Plus(Plus(Scaled(c0, <<3, 8>>), Scaled(c1, <<1, 4>>)), Scaled(c2, <<1, 2>>))

\* w0 * 0.375 + w1 * 0.25 + w4 * 0.375 and its like
Corner(c0, c1, c2) ==
    Plus(Plus(Scaled(c0, <<3, 8>>), Scaled(c1, <<1, 4>>)), Scaled(c2, <<3, 8>>))

Rule100(s, q) == Ret(Mix(s[4], s[3], Sub(Half, q[1])), 101)
Rule102(s, q) == Ret(Mix(s[4], s[1], Sub(Half, q[2])), 103)

Rule104(s, q) == Ret(s[4], 105)
Rule106(s, q) ==
    Ret(Mix(s[4], Mix(s[4], s[0], Sub(Half, q[1])), Sub(Half, q[2])), 110)
Rule111(s, q) ==
    Ret(Mix(Mix(Corner(s[0], s[1], s[4]),
                Plus(Scaled(s[4], Half), Scaled(s[1], Half)), Twice(q[1])),
            s[4], Twice(q[2])), 112)
Rule113(s, q) ==
    Ret(Mix(Mix(Corner(s[0], s[3], s[4]),
                Plus(Scaled(s[4], Half), Scaled(s[3], Half)), Twice(q[2])),
            s[4], Twice(q[1])), 114)

\* The blend r of the diagonal rules (lines 122-127, and again at 167-172, 192-197
\* and 227-232).
DiagBlend(s, q) ==
    IF is_different(s[0], s[1]) \/ is_different(s[0], s[3])
    THEN Mix(s[1], s[3], Add(Sub(q[2], q[1]), Half))
    ELSE Mix(Mix(Corner(s[1], s[0], s[3]), s[3], Twice(q[2])), s[1], Twice(q[1]))

\* The factors of the final mix of the distance rules.
FactorCircle(dist, pixel_size) ==
    Div(Add(Sub(dist, Half), HalfOf(pixel_size)), pixel_size)
FactorSlope(dist, pixel_size) ==
    Div(Add(dist, HalfOf(pixel_size)), pixel_size)
FactorSteep(dist, pixel_size) ==
    Div(Sub(Add(dist, HalfOf(pixel_size)), One), pixel_size)

\* The mutant: the half band is subtracted instead of added.
FactorDiagMinus(dist, pixel_size) ==
    Div(Sub(Sub(dist, HalfOf(pixel_size)), Half), pixel_size)

FactorDiag(dist, pixel_size) ==
    Div(Sub(Add(dist, HalfOf(pixel_size)), Half), pixel_size)

DistCircle(q) == Length(<<Sub(q[1], Half), Sub(q[2], Half)>>)

\* if (P(0x2f,0x2f)) { ... }
Circle(s, dist, pixel_size, r) ==
    IF Lt(dist, Sub(Half, HalfOf(pixel_size))) THEN Ret(s[4], 119)
    ELSE IF Lt(Add(Half, HalfOf(pixel_size)), dist) THEN Ret(r, 130)
    ELSE Blend(s[4], r, FactorCircle(dist, pixel_size), 132)
Rule115(s, q, src, tgt) == Circle(s, DistCircle(q), PixelSize(src, tgt), DiagBlend(s, q))

\* The mutant: beyond the band the rule returns w3 instead of w1.
Rule134Left(s, q, src, tgt) ==
    LET dist == Sub(q[1], Twice(q[2]))
        pixel_size == Mul(PixelSize(src, tgt), Sqrt5)
        r == Mix(s[3], s[4], Add(q[1], Half))
    IN  IF Lt(HalfOf(pixel_size), dist) THEN Ret(s[3], 138)
        ELSE IF Lt(dist, Neg(HalfOf(pixel_size))) THEN Ret(r, 142)
        ELSE RetMix(Mix(r, s[1], FactorSlope(dist, pixel_size)), 144,
                    FactorSlope(dist, pixel_size))

\* if (P(0xbf,0x37) || P(0xdb,0x13)) { ... }
Slope134(s, dist, pixel_size, r) ==
    IF Lt(HalfOf(pixel_size), dist) THEN Ret(s[1], 138)
    ELSE IF Lt(dist, Neg(HalfOf(pixel_size))) THEN Ret(r, 142)
    ELSE Blend(r, s[1], FactorSlope(dist, pixel_size), 144)
Rule134(s, q, src, tgt) ==
    Slope134(s, Sub(q[1], Twice(q[2])), Mul(PixelSize(src, tgt), Sqrt5),
             Mix(s[3], s[4], Add(q[1], Half)))

\* if (P(0xdb,0x49) || P(0xef,0x6d)) { ... }
Slope146(s, dist, pixel_size, r) ==
    IF Lt(HalfOf(pixel_size), dist) THEN Ret(s[3], 150)
    ELSE IF Lt(dist, Neg(HalfOf(pixel_size))) THEN Ret(r, 154)
    ELSE Blend(r, s[3], FactorSlope(dist, pixel_size), 156)
Rule146(s, q, src, tgt) ==
    Slope146(s, Sub(q[2], Twice(q[1])), Mul(PixelSize(src, tgt), Sqrt5),
             Mix(s[1], s[4], Add(q[1], Half)))

\* if (P(0xbf,0x8f) || P(0x7e,0x0e)) { ... }
Steep158(s, dist, pixel_size, r) ==
    IF Lt(Add(One, HalfOf(pixel_size)), dist) THEN Ret(s[4], 163)
    ELSE IF Lt(dist, Sub(One, HalfOf(pixel_size))) THEN Ret(r, 175)
    ELSE Blend(r, s[4], FactorSteep(dist, pixel_size), 178)
Rule158(s, q, src, tgt) ==
    Steep158(s, Add(q[1], Twice(q[2])), Mul(PixelSize(src, tgt), Sqrt5), DiagBlend(s, q))

\* if (P(0x7e,0x2a) || P(0xef,0xab)) { ... }
Steep182(s, dist, pixel_size, r) ==
    IF Lt(Add(One, HalfOf(pixel_size)), dist) THEN Ret(s[4], 187)
    ELSE IF Lt(dist, Sub(One, HalfOf(pixel_size))) THEN Ret(r, 200)
    ELSE Blend(r, s[4], FactorSteep(dist, pixel_size), 203)
Rule182(s, q, src, tgt) ==
    Steep182(s, Add(q[2], Twice(q[1])), Mul(PixelSize(src, tgt), Sqrt5), DiagBlend(s, q))

\* The mutant: the rule blends towards w1 (above) instead of w3 (left).
Rule206Up(s, q) == Ret(Mix(s[4], s[1], Sub(Half, q[1])), 207)

Rule206(s, q) == Ret(Mix(s[4], s[3], Sub(Half, q[1])), 207)
Rule209(s, q) == Ret(Mix(s[4], s[1], Sub(Half, q[2])), 210)
Rule212(s, q) ==
    Ret(Mix(s[4], s[0], HalfOf(Sub(Sub(One, q[1]), q[2]))), 214)

\* if (P(0x4f,0x4b) || ... || P(0x3b,0x1b)) { ... }
Diag216(s, dist, pixel_size, r) ==
    IF Lt(Add(Half, HalfOf(pixel_size)), dist) THEN Ret(s[4], 223)
    ELSE IF Lt(dist, Sub(Half, HalfOf(pixel_size))) THEN Ret(r, 235)
    ELSE Blend(r, s[4], FactorDiag(dist, pixel_size), 238)
Rule216(s, q, src, tgt) ==
    Diag216(s, Add(q[1], q[2]), PixelSize(src, tgt), DiagBlend(s, q))

Rule241(s, q) ==
    Ret(Mix(Mix(s[4], s[3], Sub(Half, q[1])),
            Mix(s[1], Scaled(Plus(s[1], s[3]), Half), Sub(Half, q[1])),
            Sub(Half, q[2])), 242)

\* The mutant: the corner sample is taken two texels away (x0 for w0).
Rule244Far(s, r, q) ==
    Ret(Mix(Mix(s[4], s[3], Sub(Half, q[1])),
            Mix(s[1], r[0], Sub(Half, q[1])),
            Sub(Half, q[2])), 245)

Rule244(s, r, q) ==
    Ret(Mix(Mix(s[4], s[3], Sub(Half, q[1])),
            Mix(s[1], s[0], Sub(Half, q[1])),
            Sub(Half, q[2])), 245)

\* Lines 247-284: the fallback, with the extended ring r = x0..x6.
\* A return after the diagonal bias has been computed.
Biased(rt, ext, diagonal_bias) == [rt EXCEPT !.bias = diagonal_bias, !.ext = ext]

\* Lines 276-284, with r = mix(w1, w3, p.y - p.x + 0.5).
Solve(s, dist, pixel_size, diagonal_bias, r) ==
    IF diagonal_bias <= 0
    THEN IF Lt(dist, Sub(Half, HalfOf(pixel_size))) THEN Ret(r, 279)
         ELSE Blend(r, s[4], FactorDiag(dist, pixel_size), 281)
    ELSE Ret(s[4], 284)

Fallback(s, q, dist, pixel_size, ext) ==
    IF Lt(Add(Half, HalfOf(pixel_size)), dist) THEN Ret(s[4], 251)
    ELSE Biased(Solve(s, dist, pixel_size, DiagonalBias(ext),
                      Mix(s[1], s[3], Add(Sub(q[2], q[1]), Half))),
                ext, DiagonalBias(ext))

Rule247(pattern, s, r, q, src, tgt) ==
    Fallback(s, q, Add(q[1], q[2]), PixelSize(src, tgt), pattern + RingPattern(r, s[4]))

---------------------------------------------------------------------------
(* scale(): the ordered rule list, first match wins (lines 100-284).       *)

Guard100(pattern, s) ==
    (P(pattern, 191, 55) \/ P(pattern, 219, 19)) /\ is_different(s[1], s[5])
Guard102(pattern, s) ==
    (P(pattern, 219, 73) \/ P(pattern, 239, 109)) /\ is_different(s[7], s[3])

\* The mutant: the auxiliary test is_different(w3, w1) is dropped.
Guard104NoAux(pattern, s) ==
    P(pattern, 11, 11) \/ P(pattern, 254, 74) \/ P(pattern, 254, 26)

Guard104(pattern, s) ==
    (P(pattern, 11, 11) \/ P(pattern, 254, 74) \/ P(pattern, 254, 26))
    /\ is_different(s[3], s[1])
Guard106(pattern, s) ==
    (\/ P(pattern, 111, 42) \/ P(pattern, 91, 10)   \/ P(pattern, 191, 58)
     \/ P(pattern, 223, 90) \/ P(pattern, 159, 138) \/ P(pattern, 207, 138)
     \/ P(pattern, 239, 78) \/ P(pattern, 63, 14)   \/ P(pattern, 251, 90)
     \/ P(pattern, 187, 138) \/ P(pattern, 127, 90) \/ P(pattern, 175, 138)
     \/ P(pattern, 235, 138))
    /\ is_different(s[3], s[1])
Guard111(pattern) == P(pattern, 11, 8)
Guard113(pattern) == P(pattern, 11, 2)
Guard115(pattern) == P(pattern, 47, 47)
Guard134(pattern) == P(pattern, 191, 55) \/ P(pattern, 219, 19)
Guard146(pattern) == P(pattern, 219, 73) \/ P(pattern, 239, 109)
Guard158(pattern) == P(pattern, 191, 143) \/ P(pattern, 126, 14)
Guard182(pattern) == P(pattern, 126, 42) \/ P(pattern, 239, 171)
Guard206(pattern) ==
    P(pattern, 27, 3) \/ P(pattern, 79, 67) \/ P(pattern, 139, 131) \/ P(pattern, 107, 67)
Guard209(pattern) ==
    P(pattern, 75, 9) \/ P(pattern, 139, 137) \/ P(pattern, 31, 25) \/ P(pattern, 59, 25)
Guard212(pattern) ==
    \/ P(pattern, 251, 106) \/ P(pattern, 111, 110) \/ P(pattern, 63, 62)
    \/ P(pattern, 251, 250) \/ P(pattern, 223, 222) \/ P(pattern, 223, 30)
Guard216(pattern) ==
    \/ P(pattern, 79, 75)  \/ P(pattern, 159, 27) \/ P(pattern, 47, 11)
    \/ P(pattern, 190, 10) \/ P(pattern, 238, 10) \/ P(pattern, 126, 10)
    \/ P(pattern, 235, 75) \/ P(pattern, 59, 27)
Guard241(pattern) == P(pattern, 11, 1)
Guard244(pattern) == P(pattern, 11, 0)

\* The body of scale() from line 90 on: s = w0..w8, r = x0..x6, q = p.
Cascade(pattern, s, r, q, src, tgt) ==
    IF Guard100(pattern, s) THEN Rule100(s, q)
    ELSE IF Guard102(pattern, s) THEN Rule102(s, q)
    ELSE IF Guard104(pattern, s) THEN Rule104(s, q)
    ELSE IF Guard106(pattern, s) THEN Rule106(s, q)
    ELSE IF Guard111(pattern) THEN Rule111(s, q)
    ELSE IF Guard113(pattern) THEN Rule113(s, q)
    ELSE IF Guard115(pattern) THEN Rule115(s, q, src, tgt)
    ELSE IF Guard134(pattern) THEN Rule134(s, q, src, tgt)
    ELSE IF Guard146(pattern) THEN Rule146(s, q, src, tgt)
    ELSE IF Guard158(pattern) THEN Rule158(s, q, src, tgt)
    ELSE IF Guard182(pattern) THEN Rule182(s, q, src, tgt)
    ELSE IF Guard206(pattern) THEN Rule206(s, q)
    ELSE IF Guard209(pattern) THEN Rule209(s, q)
    ELSE IF Guard212(pattern) THEN Rule212(s, q)
    ELSE IF Guard216(pattern) THEN Rule216(s, q, src, tgt)
    ELSE IF Guard241(pattern) THEN Rule241(s, q)
    ELSE IF Guard244(pattern) THEN Rule244(s, r, q)
    ELSE Rule247(pattern, s, r, q, src, tgt)

ScaleRules(s, r, q, src, tgt) == Cascade(NearPattern(s), s, r, q, src, tgt)

---------------------------------------------------------------------------
(* scale(): the samples (lines 58-88 and 254-260) and main().              *)

Clamp(k, lo, hi) == IF k < lo THEN lo ELSE IF k > hi THEN hi ELSE k

\* texture(image, c): the texel that holds c, clamped to the edge.
Texture(img, src, c) ==
    img[Clamp(Floor(Mul(c[1], Whole(src[1]))), 0, src[1] - 1)]
       [Clamp(Floor(Mul(c[2], Whole(src[2]))), 0, src[2] - 1)]

\* The centre of output pixel f, in texture coordinates.
TexCoord(f, tgt) ==
    << Frac(2 * f[1] + 1, 2 * tgt[1]), Frac(2 * f[2] + 1, 2 * tgt[2]) >>

\* if (p.x > 0.5) { o.x = -o.x; p.x = 1.0 - p.x; }   and the same for y
Flips(q) == Lt(Half, q)

\* Lines 61-88 and 254-260: o, p and the sixteen samples.
\* o.x (or o.y) after the flip: 1/size, negated when the position is past the middle
Offset(p0, size) == IF Flips(p0) THEN Frac(-1, size) ELSE Frac(1, size)
\* p.x (or p.y) after the flip
Flipped(p0) == IF Flips(p0) THEN Sub(One, p0) ELSE p0

\* texture(image, texCoord + vec2(dx * o.x, dy * o.y))
At(img, coord, src, o, dx, dy) ==
    Texture(img, src, << Add(coord[1], Mul(Whole(dx), o[1])),
                         Add(coord[2], Mul(Whole(dy), o[2])) >>)

\* x0..x3 are the row two above, x4..x6 the column two to the left.
RingDx(k) == IF k <= 3 THEN k - 2 ELSE -2
RingDy(k) == IF k <= 3 THEN -2 ELSE k - 5

Gather(img, coord, src, p0) ==
    [ w |-> [k \in 0..8 |->
               At(img, coord, src, <<Offset(p0[1], src[1]), Offset(p0[2], src[2])>>,
                  (k % 3) - 1, (k \div 3) - 1)],
      x |-> [k \in 0..6 |->
               At(img, coord, src, <<Offset(p0[1], src[1]), Offset(p0[2], src[2])>>,
                  RingDx(k), RingDy(k))],
      p |-> <<Flipped(p0[1]), Flipped(p0[2])>> ]

Samples(img, coord, src) ==
    Gather(img, coord, src,
           <<Fract(Mul(coord[1], Whole(src[1]))), Fract(Mul(coord[2], Whole(src[2])))>>)

---------------------------------------------------------------------------
(* The inputs the shader is run on.                                        *)

Black == RGBA(0, 0, 0, 255)
Soot  == RGBA(16, 16, 16, 255)        \* not different from Black, not equal to it
White == RGBA(255, 255, 255, 255)
Snow  == RGBA(240, 240, 240, 255)     \* not different from White, not equal to it
Red   == RGBA(255, 0, 0, 128)         \* different from the four others

\* The positions k/PGrid of the top-left quarter, 0 <= k/PGrid <= 1/2.
PAxis == {Frac(k, PGrid) : k \in 0..(PGrid \div 2)}

\* Neighbourhoods around a Black centre: every pattern 0..255, with the samples
\* the rules blend and compare (w0, w1, w3) drawn from more colours.
Neighbourhoods ==
    { [k \in 0..8 |-> CASE k = 4 -> Black
                        [] k = 0 -> c[1] [] k = 1 -> c[2] [] k = 3 -> c[3]
                        [] k = 5 -> d[1] [] k = 7 -> d[2]
                        [] k = 2 -> e[1] [] k = 6 -> e[2] [] k = 8 -> e[3]] :
        c \in {Black, Soot, White, Red} \X {Black, White, Snow, Red}
              \X {Black, Soot, White, Red},
        d \in {Black, White} \X {Black, White},
        e \in {Black, White} \X {Black, White} \X {Black, White} }

\* Extended rings with 0, 4 and 7 samples different from a Black centre.
Rings ==
    { [k \in 0..6 |-> Black], [k \in 0..6 |-> IF k % 2 = 0 THEN White ELSE Black],
      [k \in 0..6 |-> White] }

\* The source is 3x3 texels (the size of the spec's scenarios).
Source == <<3, 3>>
\* Output sizes for a given neighbourhood: 2x and 4x.
RuleTargets == {<<6, 6>>, <<12, 12>>}
\* Output sizes for a whole image: 3x (odd: the middle column has p.x = 0.5) and 4x.
ImageTargets == {<<9, 9>>, <<12, 12>>}

\* Every 3x3 image of Black and White texels.
Images == [0..(Source[1] - 1) -> [0..(Source[2] - 1) -> {Black, White}]]

InitIdle ==
    /\ ca = <<>> /\ cb = <<>> /\ differ = <<>>
    /\ val = <<>>

\* scale() on a neighbourhood given directly.
InitRule ==
    /\ image = <<>> /\ frag = <<>>
    /\ sourceSize = Source
    /\ targetSize \in RuleTargets
    /\ w \in Neighbourhoods
    /\ x \in Rings
    /\ p \in PAxis \X PAxis
    /\ ret = <<>>
    /\ pc = "scale"
    /\ InitIdle

\* main() on one output pixel of an image.
InitImage ==
    /\ image \in Images
    /\ sourceSize = Source
    /\ targetSize \in ImageTargets
    /\ frag \in (0..(targetSize[1] - 1)) \X (0..(targetSize[2] - 1))
    /\ w = <<>> /\ x = <<>> /\ p = <<>>
    /\ ret = <<>>
    /\ pc = "scale"
    /\ InitIdle

\* scale() from line 90 on, for samples and a position already taken.
Shade ==
    /\ pc = "scale"
    /\ image = <<>>
    /\ ret' = ScaleRules(w, x, p, sourceSize, targetSize)
    /\ pc' = "done"
    /\ UNCHANGED <<image, sourceSize, targetSize, frag, w, x, p, ca, cb, differ, val>>

\* scale(image, coord): what main() assigns to fragColor, with the locals w, x, p.
Shaded(sm, src, tgt) ==
    [w |-> sm.w, x |-> sm.x, p |-> sm.p, ret |-> ScaleRules(sm.w, sm.x, sm.p, src, tgt)]
Scale(img, coord, src, tgt) == Shaded(Samples(img, coord, src), src, tgt)

\* void main() { fragColor = scale(source, texCoord); }
Main ==
    /\ pc = "scale"
    /\ image # <<>>
    /\ \E r \in {Scale(image, TexCoord(frag, targetSize), sourceSize, targetSize)} :
           w' = r.w /\ x' = r.x /\ p' = r.p /\ ret' = r.ret
    /\ pc' = "done"
    /\ UNCHANGED <<image, sourceSize, targetSize, frag, ca, cb, differ, val>>

NextImage == Main
SpecImage == InitImage /\ [][NextImage]_vars

NextRule == Shade
SpecRule == InitRule /\ [][NextRule]_vars

---------------------------------------------------------------------------
(* The classifier on its own.                                              *)

ClassifyColours ==
    { RGBA(r * ChanStep, g * ChanStep, b * ChanStep, ChanMax) :
        r \in 0..ChanLevels, g \in 0..ChanLevels, b \in 0..ChanLevels }

InitClassify ==
    /\ ca \in ClassifyColours
    /\ cb \in ClassifyColours
    /\ differ = <<>>
    /\ image = <<>> /\ frag = <<>> /\ sourceSize = Source /\ targetSize = Source
    /\ w = <<>> /\ x = <<>> /\ p = <<>> /\ ret = <<>> /\ pc = "done"
    /\ val = <<>>

Classify ==
    /\ differ = <<>>
    /\ ca # <<>>
    /\ differ' = <<is_different(ca, cb), is_different(cb, ca)>>
    /\ UNCHANGED <<shaderVars, ca, cb, val>>

NextClassify == Classify
SpecClassify == InitClassify /\ [][NextClassify]_vars

---------------------------------------------------------------------------
(* SettingManager: fe_settings and read().                                 *)

\* fe_settings[]: name, default value, min, max (lines 39-75).
fe_settings ==
    << [name |-> "v_scale",         val |-> 2, min |-> 1, max |-> 16],
       [name |-> "v_linearfilter",  val |-> 1, min |-> 0, max |-> 1],
       [name |-> "v_aspect",        val |-> 0, min |-> 0, max |-> 2],
       [name |-> "a_rsqual",        val |-> 2, min |-> 0, max |-> 4],
       [name |-> "m_ffspeed",       val |-> 2, min |-> 2, max |-> 8],
       [name |-> "m_hidecursor",    val |-> 0, min |-> 0, max |-> 1],
       [name |-> "m_hidecrosshair", val |-> 0, min |-> 0, max |-> 1] >>

Settings == 1..Len(fe_settings)

DigitOf(c) ==
    CASE c = "0" -> 0 [] c = "1" -> 1 [] c = "2" -> 2 [] c = "3" -> 3 [] c = "4" -> 4
      [] c = "5" -> 5 [] c = "6" -> 6 [] c = "7" -> 7 [] c = "8" -> 8 [] c = "9" -> 9

RECURSIVE Digits(_, _)
Digits(str, acc) ==
    IF str = <<>> THEN acc ELSE Digits(Tail(str), 10 * acc + DigitOf(Head(str)))

\* std::stoi on the text of an integer: an optional sign, then decimal digits.
Stoi(str) ==
    IF Head(str) = "-" THEN -Digits(Tail(str), 0)
    ELSE IF Head(str) = "+" THEN Digits(Tail(str), 0)
    ELSE Digits(str, 0)

\* The values an entry of the [frontend] section takes: none (<<>>, the empty
\* string that ini["frontend"][name] gives for a missing key) or an integer.
StrVals == { <<>>, <<"0">>, <<"1">>, <<"3">>, <<"-", "1">>, <<"2", "0">> }

\* The [frontend] sections read: an entry per setting, few of them non-empty.
ConfFiles ==
    UNION { { [k \in Settings |-> IF k \in keys THEN entry[k] ELSE <<>>] :
                entry \in [keys -> StrVals \ {<<>>}] } :
            keys \in {K \in SUBSET Settings : Cardinality(K) <= MaxEntries} }

\* The mutant: the upper limit is not checked.
ReadSettingNoMax(setting, cur, strval) ==
    IF strval = <<>> THEN cur
    ELSE IF Stoi(strval) >= setting.min THEN Stoi(strval)
    ELSE cur

\* One turn of the loop of read() (lines 109-120): the setting's new val.
ReadSetting(setting, cur, strval) ==
    IF strval = <<>> THEN cur
    ELSE IF Stoi(strval) >= setting.min /\ Stoi(strval) <= setting.max THEN Stoi(strval)
    ELSE cur

\* The loop over the frontend settings.
ReadFrontend(cur, ini) == [k \in Settings |-> ReadSetting(fe_settings[k], cur[k], ini[k])]

InitSettings ==
    /\ val = [k \in Settings |-> fe_settings[k].val]
    /\ ca = <<>> /\ cb = <<>> /\ differ = <<>>
    /\ image = <<>> /\ frag = <<>> /\ sourceSize = Source /\ targetSize = Source
    /\ w = <<>> /\ x = <<>> /\ p = <<>> /\ ret = <<>> /\ pc = "done"

\* SettingManager::read, for the frontend settings.
Read ==
    /\ val # <<>>
    /\ \E ini \in ConfFiles : val' = ReadFrontend(val, ini)
    /\ UNCHANGED <<shaderVars, classifyVars>>

NextSettings == Read
SpecSettings == InitSettings /\ [][NextSettings]_vars

---------------------------------------------------------------------------
(* What the claims about scale() are stated with.                          *)

Done == pc = "done" /\ ret # <<>>

NearCount == Cardinality({k \in {0, 1, 2, 3, 5, 6, 7, 8} : is_different(w[k], w[4])})
RingCount == Cardinality({k \in 0..6 : is_different(x[k], w[4])})

Clamp01(q) == IF Lt(q, Zero) THEN Zero ELSE IF Lt(One, q) THEN One ELSE q

\* The band of each distance rule, by the lines of its return statements: the
\* distance of p from the edge line, the band [lo, hi], and the colours the rule
\* gives at lo (c0) and at hi (c1).
Px == PixelSize(sourceSize, targetSize)
Px5 == Mul(PixelSize(sourceSize, targetSize), Sqrt5)
BandAt(dist, centre, width, c0, c1) ==
    [dist |-> dist, lo |-> Sub(centre, HalfOf(width)), hi |-> Add(centre, HalfOf(width)),
     c0 |-> c0, c1 |-> c1]
Band ==
    CASE ret.line \in {119, 130, 132} ->
            BandAt(DistCircle(p), Half, Px, w[4], DiagBlend(w, p))
      [] ret.line \in {138, 142, 144} ->
            BandAt(Sub(p[1], Twice(p[2])), Zero, Px5, Mix(w[3], w[4], Add(p[1], Half)), w[1])
      [] ret.line \in {150, 154, 156} ->
            BandAt(Sub(p[2], Twice(p[1])), Zero, Px5, Mix(w[1], w[4], Add(p[1], Half)), w[3])
      [] ret.line \in {163, 175, 178} ->
            BandAt(Add(p[1], Twice(p[2])), One, Px5, DiagBlend(w, p), w[4])
      [] ret.line \in {187, 200, 203} ->
            BandAt(Add(p[2], Twice(p[1])), One, Px5, DiagBlend(w, p), w[4])
      [] ret.line \in {223, 235, 238} ->
            BandAt(Add(p[1], p[2]), Half, Px, DiagBlend(w, p), w[4])
      [] ret.line \in {251, 279, 281} ->
            BandAt(Add(p[1], p[2]), Half, Px,
                   Mix(w[1], w[3], Add(Sub(p[2], p[1]), Half)), w[4])

InBandLines == {132, 144, 156, 178, 203, 238, 281}
\* Returns beyond the band on the side of the single sample, and on the side of r.
FarLines    == {119, 138, 150, 163, 187, 223, 251}
NearLines   == {130, 142, 154, 175, 200, 235, 279}
BandLines   == InBandLines \cup FarLines \cup NearLines

\* How far dist is across the band: 0 at lo, 1 at hi.
Across(b) == Div(Sub(b.dist, b.lo), Sub(b.hi, b.lo))

MinOf(S) == CHOOSE q \in S : \A r \in S : Le(q, r)
MaxOf(S) == CHOOSE q \in S : \A r \in S : Le(r, q)

---------------------------------------------------------------------------
(* C7.  Every channel of the colour scale() returns lies between the least
   and the greatest value of that channel over the nine near samples.      *)
C7_OutputRange ==
    (Done /\ image = <<>>) =>
        \A i \in Chan :
            /\ Le(MinOf({w[k][i] : k \in 0..8}), ret.color[i])
            /\ Le(ret.color[i], MaxOf({w[k][i] : k \in 0..8}))

\* A corner blend inside the band of the circle rule: a colour that is none of
\* the samples.
C7_Witness ==
    /\ Done /\ image = <<>>
    /\ ret.line = 132
    /\ ~ (is_different(w[0], w[1]) \/ is_different(w[0], w[3]))
    /\ \A k \in 0..8 : ret.color # w[k]

(* C5.  In every distance rule the factor of the final mix is the position's
   normalized distance across the band, so within [0, 1], 0 at one boundary
   and 1 at the other; and beyond the band the colour returned is the one
   that factor 0, or factor 1, gives: the result is the mix with the factor
   clamped to [0, 1].                                                      *)
C5_BandContinuity ==
    (Done /\ image = <<>> /\ ret.line \in BandLines) =>
        /\ ret.line \in InBandLines =>
              /\ Le(Band.lo, Band.dist) /\ Le(Band.dist, Band.hi)
              /\ ret.t = Across(Band)
              /\ Le(Zero, ret.t) /\ Le(ret.t, One)
        /\ ret.line \in FarLines \cup NearLines =>
              Lt(Band.dist, Band.lo) \/ Lt(Band.hi, Band.dist)
        /\ ret.color = Mix(Band.c0, Band.c1, Clamp01(Across(Band)))

\* Inside the band of a 2:1 rule, strictly between the two sides.
C5_Witness ==
    /\ Done /\ image = <<>>
    /\ ret.line = 144
    /\ Lt(Zero, ret.t) /\ Lt(ret.t, One)
    /\ ret.color # w[1]

(* C8, as claimed.  The bias counts only the extended-ring samples that differ
   from the centre (bits 8-14), minus 7.                                   *)
C8_RingBitsOnly ==
    (Done /\ image = <<>> /\ ret.line \in {279, 281, 284}) => ret.bias = RingCount - 7

(* C8, amended.  The bias counts every set bit of the 15-bit pattern, the near
   bits 0-7 as well as the ring bits 8-14, minus 7; the diagonal blend is taken
   when it is <= 0 and the centre returned when it is > 0.                 *)
C8_AllBits ==
    (Done /\ image = <<>> /\ ret.line \in {279, 281, 284}) =>
        /\ ret.bias = NearCount + RingCount - 7
        /\ ret.bias <= 0 <=> ret.line \in {279, 281}
        /\ ret.bias > 0 <=> ret.line = 284

\* The centre is returned although part of the ring agrees with it: the near
\* bits make the bias positive.
C8_Witness ==
    /\ Done /\ image = <<>>
    /\ ret.line = 284
    /\ RingCount < 7
    /\ ret.bias > 0

(* C2, as claimed.  With all 8 near neighbours and all 7 ring samples different
   from the centre, scale() returns w4 whether or not w1 and w3 differ.    *)
AllDifferent == NearPattern(w) = 255 /\ RingCount = 7

C2_AlwaysCentre ==
    (Done /\ image = <<>> /\ AllDifferent) => ret.color = w[4]

(* C2, amended.  With all 8 near neighbours and all 7 ring samples different
   from the centre, scale() returns w4 at line 105 when w1 and w3 are different
   from each other; when they are not, the circle rule of line 115 decides:
   w4 only where p is nearer than 0.5 - pixel_size/2 to the pixel's centre,
   and the blend r, or a mix of w4 and r, elsewhere.                       *)
C2_CentreOrCircle ==
    (Done /\ image = <<>> /\ AllDifferent) =>
        /\ is_different(w[3], w[1]) => (ret.line = 105 /\ ret.color = w[4])
        /\ ~ is_different(w[3], w[1]) =>
              /\ ret.line \in {119, 130, 132}
              /\ ret.line = 119 <=> Lt(DistCircle(p), Sub(Half, HalfOf(Px)))
              /\ ret.line = 119 => ret.color = w[4]
              /\ ret.line = 130 => ret.color = DiagBlend(w, p)
              /\ ret.line = 132 =>
                    ret.color = Mix(w[4], DiagBlend(w, p), FactorCircle(DistCircle(p), Px))

\* w1 and w3 alike, p at the pixel's corner: the result is not the centre.
C2_Witness ==
    /\ Done /\ image = <<>> /\ AllDifferent
    /\ ~ is_different(w[3], w[1])
    /\ ret.line = 130
    /\ ret.color # w[4]

(* C9, as claimed.  Beyond the band a distance rule returns one flat colour
   for that side: the colour does not vary with p on that side.            *)
C9_FlatBothSides ==
    (Done /\ image = <<>> /\ ret.line \in FarLines \cup NearLines) =>
        \A q \in PAxis \X PAxis :
            LET other == ScaleRules(w, x, q, sourceSize, targetSize)
            IN  other.line = ret.line => other.color = ret.color

(* C9, amended.  Beyond the band on the far side a distance rule returns one
   sample (w4, w1 or w3), the same for every p on that side; on the near side
   it returns the blend r of neighbouring samples taken at p, which is that
   flat colour only when the samples r blends are equal; inside the band the
   result lies between r at p and the far side's sample.                   *)
C9_FlatFarSide ==
    (Done /\ image = <<>> /\ ret.line \in BandLines) =>
        /\ ret.line \in {119, 163, 187, 223, 251} => ret.color = w[4]
        /\ ret.line = 138 => ret.color = w[1]
        /\ ret.line = 150 => ret.color = w[3]
        /\ ret.line \in {130, 175, 200, 235} =>
              /\ ret.color = DiagBlend(w, p)
              /\ (w[0] = w[1] /\ w[1] = w[3]) => ret.color = w[1]
        /\ ret.line = 142 =>
              /\ ret.color = Mix(w[3], w[4], Add(p[1], Half))
              /\ w[3] = w[4] => ret.color = w[4]
        /\ ret.line = 154 =>
              /\ ret.color = Mix(w[1], w[4], Add(p[1], Half))
              /\ w[1] = w[4] => ret.color = w[4]
        /\ ret.line = 279 =>
              /\ ret.color = Mix(w[1], w[3], Add(Sub(p[2], p[1]), Half))
              /\ w[1] = w[3] => ret.color = w[1]
        /\ ret.line \in InBandLines =>
              /\ Le(Zero, ret.t) /\ Le(ret.t, One)
              /\ ret.color = Mix(Band.c0, Band.c1, ret.t)

\* Below the band of a 2:1 rule with w3 alike, but not equal, to the centre: the
\* colour on that side changes with p.x.
C9_Witness ==
    /\ Done /\ image = <<>>
    /\ ret.line = 142
    /\ w[3] # w[4]
    /\ \E q \in PAxis \X PAxis :
          LET other == ScaleRules(w, x, q, sourceSize, targetSize)
          IN  other.line = 142 /\ other.color # ret.color

---------------------------------------------------------------------------
(* The claims about whole images.                                          *)

OnImage == pc = "done" /\ ret # <<>> /\ image # <<>>

MirrorH(img) == [c \in DOMAIN img |-> img[sourceSize[1] - 1 - c]]
MirrorV(img) == [c \in DOMAIN img |-> [r \in DOMAIN img[c] |-> img[c][sourceSize[2] - 1 - r]]]

\* The colour of output pixel f of the scaled image img.
ColourAt(img, f) == Scale(img, TexCoord(f, targetSize), sourceSize, targetSize).ret.color

(* C1.  Quadrant invariance: the output pixel has the colour that the mirrored
   pixel has in the scaled mirror image, for the horizontal and for the
   vertical mirror, whatever the position p, 0.5 included.                 *)
C1_MirrorInvariant ==
    OnImage =>
        /\ ret.color = ColourAt(MirrorH(image), <<targetSize[1] - 1 - frag[1], frag[2]>>)
        /\ ret.color = ColourAt(MirrorV(image), <<frag[1], targetSize[2] - 1 - frag[2]>>)

(* C3.  Where the eight near neighbours have the colour of the centre, scale()
   returns exactly that colour, whatever lies further away; so an image of
   one colour is scaled to that colour at every output pixel.              *)
Uniform(img) == \A c \in DOMAIN img : \A r \in DOMAIN img[c] : img[c][r] = img[0][0]

C3_FlatExact ==
    OnImage =>
        /\ (\A k \in 0..8 : w[k] = w[4]) => (NearPattern(w) = 0 /\ ret.color = w[4])
        /\ Uniform(image) => ret.color = image[0][0]

\* A flat neighbourhood in an image that is not uniform: the ring sees the other
\* colour.
C3_Witness ==
    /\ OnImage
    /\ \A k \in 0..8 : w[k] = w[4]
    /\ x[0] # w[4]
    /\ Lt(p[1], Half) /\ Lt(p[2], Half)
    /\ ret.color = w[4]

(* C4.  Scenario A: a 3x3 source with the top row of colour A and the two lower
   rows of colour B, scaled 4x: an output pixel is exactly A where it maps into
   source row 0 and exactly B where it maps into row 1 or 2.               *)
ScenarioA(a, b) == [c \in 0..2 |-> [r \in 0..2 |-> IF r = 0 THEN a ELSE b]]

\* The source row that output row j maps into.
SourceRow(j) == Floor(Mul(TexCoord(<<0, j>>, targetSize)[2], Whole(sourceSize[2])))

C4_HardRowEdge ==
    \A a, b \in {Black, White} :
        (OnImage /\ a # b /\ image = ScenarioA(a, b) /\ targetSize = <<12, 12>>) =>
            /\ SourceRow(frag[2]) = 0 => ret.color = a
            /\ SourceRow(frag[2]) \in {1, 2} => ret.color = b

\* The last output row above the edge, decided by the rule of line 206.
C4_Witness ==
    /\ OnImage
    /\ image = ScenarioA(Black, White) /\ targetSize = <<12, 12>>
    /\ frag[2] = 3
    /\ ret.line = 207
    /\ ret.color = Black

---------------------------------------------------------------------------
(* C6.  The classifier is symmetric: is_different(a, b) = is_different(b, a)
   for all colours a and b.                                                *)
C6_Symmetric == differ # <<>> => differ[1] = differ[2]

\* A pair that differs in colour (the luma axis does not tell them apart).
C6_Witness ==
    /\ differ = <<TRUE, TRUE>>
    /\ ~ Lt(Frac(ThreshY, 1000),
            AbsQ(Sub(rgb_to_hq_colospace(ca)[1], rgb_to_hq_colospace(cb)[1])))

(* C10.  Every frontend setting stays within [min, max] over any sequence of
   reads, and a read leaves a setting alone whose entry is absent, empty or
   out of range.                                                           *)
Usable(k, strval) ==
    /\ strval # <<>>
    /\ Stoi(strval) >= fe_settings[k].min
    /\ Stoi(strval) <= fe_settings[k].max

C10_SettingsInRange ==
    val # <<>> =>
        /\ \A k \in Settings : fe_settings[k].min <= val[k] /\ val[k] <= fe_settings[k].max
        /\ \A ini \in ConfFiles : \A k \in Settings :
              LET after == ReadFrontend(val, ini)[k]
              IN  /\ fe_settings[k].min <= after /\ after <= fe_settings[k].max
                  /\ ~ Usable(k, ini[k]) => after = val[k]

\* Two reads have each changed a setting, and a further file is out of range.
C10_Witness ==
    /\ val # <<>>
    /\ val[1] = 3 /\ val[2] = 0 /\ val[5] = 3
    /\ \E ini \in ConfFiles : ini[1] = <<"2", "0">> /\ ReadFrontend(val, ini)[1] = 3

====
